---- MODULE Spec2Model ----
(***************************************************************************)
(* Model of src/ai_wrapper.py: class AIProjectAssistant, the wrapper over  *)
(* the OpenAI chat-completion API and a local Ollama server.               *)
(*                                                                         *)
(* Conventions                                                             *)
(*  - A Python string is a sequence of atoms; the atom ":" is the colon    *)
(*    character and every other atom is a colon-free piece of text, so     *)
(*    "llama3.2:latest" is <<"llama3.2", ":", "latest">>.                  *)
(*  - An Optional value is a sequence of length at most one: None is <<>>  *)
(*    and the value x is <<x>>.                                            *)
(*  - A temperature is counted in tenths: 0.7 is 7, 1.0 is 10.             *)
(***************************************************************************)
EXTENDS Integers, Sequences, FiniteSets, TLC

VARIABLES
    api_key,             \* outcome of os.getenv + OpenAI(...) at construction
    version_probe,       \* outcome of GET /api/version at construction
    openai_client,       \* self.openai_client is not None
    current_provider,    \* self.current_provider (Optional string)
    default_model,       \* self.default_model (<<>> when the attribute was never set)
    default_temperature, \* self.default_temperature, in tenths
    log,                 \* logs/app.log, the entries written by this module
    calls,               \* network requests issued by the latest operation
    last,                \* the latest operation: its arguments and what it gave back
    ncalls               \* number of operations performed so far

vars == <<api_key, version_probe, openai_client, current_provider, default_model,
          default_temperature, log, calls, last, ncalls>>

wrapper == <<api_key, version_probe, openai_client, current_provider, default_model,
             default_temperature>>

----------------------------------------------------------------------------
(* Bounds *)

MaxLen == 2       \* longest model name passed to send_prompt, in atoms
MaxQualifiers == 2 \* most colons in a model name the local server lists
MaxModels == 2    \* most models the local server lists
MaxCalls == 2     \* most operations performed on one wrapper

----------------------------------------------------------------------------
(* Python values *)

None == <<>>
Some(x) == <<x>>
Unset == <<>>

COLON == ":"

Str(s) == <<s>>

GPT4 == <<"gpt-4">>
LLAMA_LATEST == <<"llama3.2", COLON, "latest">>
LATEST_SUFFIX == <<COLON, "latest">>
OPENAI == "openai"
OLLAMA == "ollama"

\* bool(x) of an Optional string: None and the empty string are falsy
TruthyStr(o) == o /= None /\ o[1] /= <<>>

\* bool(x) of an Optional provider name: None and "" are falsy
TruthyName(o) == o /= None /\ o[1] /= ""

\* bool(x) of an Optional number: None and 0 are falsy
TruthyNum(o) == o /= None /\ o[1] /= 0

\* ":" in s
HasColon(s) == \E i \in 1..Len(s) : s[i] = COLON

\* s.split(":")[0]: the text before the first colon, the whole of s without one
SplitFirst(s) ==
    IF HasColon(s)
    THEN LET i == CHOOSE k \in 1..Len(s) :
                     s[k] = COLON /\ \A j \in 1..(k - 1) : s[j] /= COLON
         IN  SubSeq(s, 1, i - 1)
    ELSE s

----------------------------------------------------------------------------
(* Input sets *)

Atoms == {"m", COLON}

RECURSIVE StringsOfLen(_)
StringsOfLen(n) ==
    IF n = 0 THEN {<<>>}
    ELSE {Append(s, a) : s \in StringsOfLen(n - 1), a \in Atoms}

Strings(max) == UNION {StringsOfLen(n) : n \in 0..max}

ModelArgs == {None} \cup {Some(s) : s \in Strings(MaxLen)}
ProviderArgs == {None, Some(OPENAI), Some(OLLAMA), Some("azure")}
TemperatureArgs == {None, Some(0), Some(3), Some(10)}
Prompts == {Str("describe X")}
Topics == {Str("robotics")}

\* the names a server lists: a base name followed by colon-separated parts, as in
\* "llama3.2", "llama3.2:latest" and "registry:5000/llama3.2:latest"
RECURSIVE Qualified(_, _)
Qualified(base, k) ==
    IF k = 0 THEN <<base>> ELSE Qualified(base, k - 1) \o <<COLON, "t">>

ListedNames == {Qualified(base, k) : base \in {"m", "n"}, k \in 0..MaxQualifiers}

RECURSIVE ListsOfLen(_)
ListsOfLen(n) ==
    IF n = 0 THEN {<<>>}
    ELSE {Append(l, x) : l \in ListsOfLen(n - 1), x \in ListedNames}

Listings == UNION {ListsOfLen(n) : n \in 0..MaxModels}

ApiKeyOutcomes == {"absent", "client_created", "client_failed"}
VersionOutcomes == {"status_200", "status_200_bad_json", "status_other", "request_failed"}

\* what the OpenAI endpoint can answer to chat.completions.create
OpenAIReplies == {"completion", "no_choices", "no_usage", "api_error"}
\* what the Ollama endpoint can answer to POST /api/generate
OllamaReplies == {"response", "no_response_field", "not_json", "http_error",
                  "request_failed"}

----------------------------------------------------------------------------
(* Log entries *)

Detailed(level, text, provider, model, detail) ==
    [level |-> level, text |-> text, provider |-> provider, model |-> model,
     detail |-> detail]

Entry(level, text, provider, model) == Detailed(level, text, provider, model, <<>>)

Plain(level, text) == Entry(level, text, None, None)

----------------------------------------------------------------------------
(* __init__ *)

ProbeOk(probe) == probe \in {"status_200", "status_200_bad_json"}

InitOpenAIClient(key) == key = "client_created"

\* the local server takes the designation whenever it is detected
Mutant_InitCurrentProvider(key, probe) ==
    IF ProbeOk(probe) THEN Some(OLLAMA)
    ELSE IF key = "client_created" THEN Some(OPENAI) ELSE None

InitCurrentProvider(key, probe) ==
    LET afterOpenAI == IF key = "client_created" THEN Some(OPENAI) ELSE None
    IN  IF ProbeOk(probe)
        THEN (IF afterOpenAI /= None THEN afterOpenAI ELSE Some(OLLAMA))
        ELSE afterOpenAI

InitDefaultModel(key, probe) ==
    LET afterOpenAI == IF key = "client_created" THEN Some(GPT4) ELSE Unset
    IN  IF ProbeOk(probe) THEN Some(LLAMA_LATEST) ELSE afterOpenAI

InitLog(key, probe) ==
    (CASE key = "client_created" ->
              <<Plain("INFO", "OpenAI client initialized successfully")>>
       [] key = "client_failed" ->
              <<Plain("ERROR", "Failed to initialize OpenAI client")>>
       [] OTHER -> <<>>)
    \o
    (CASE probe = "status_200" -> <<Plain("INFO", "Ollama detected")>>
       [] probe = "status_200_bad_json" -> <<Plain("ERROR", "Failed to detect Ollama")>>
       [] probe = "request_failed" -> <<Plain("ERROR", "Failed to detect Ollama")>>
       [] OTHER -> <<>>)

DEFAULT_TEMPERATURE == 7

NoOperation == [op |-> "init"]

Init ==
    \E key \in ApiKeyOutcomes, probe \in VersionOutcomes :
        /\ api_key = key
        /\ version_probe = probe
        /\ openai_client = InitOpenAIClient(key)
        /\ current_provider = InitCurrentProvider(key, probe)
        /\ default_model = InitDefaultModel(key, probe)
        /\ default_temperature = DEFAULT_TEMPERATURE
        /\ log = InitLog(key, probe)
        /\ calls = <<>>
        /\ last = NoOperation
        /\ ncalls = 0

----------------------------------------------------------------------------
(* send_prompt *)

\* line 100: provider = provider or self.current_provider
ResolveProvider(provider) ==
    IF TruthyName(provider) THEN provider ELSE current_provider

\* line 101: temp = temperature or self.default_temperature
ResolveTemperature(temperature) ==
    IF TruthyNum(temperature) THEN temperature[1] ELSE default_temperature

\* lines 104-110; <<>> stands for the AttributeError of reading an unset
\* self.default_model
ResolveModel(provider, model) ==
    IF provider = Some(OPENAI)
    THEN (IF TruthyStr(model) THEN model ELSE Some(GPT4))
    ELSE IF TruthyStr(model) /\ ~HasColon(model[1])
         THEN Some(model[1] \o LATEST_SUFFIX)
         ELSE default_model

\* line 115
UsesOpenAI(provider) == provider = Some(OPENAI) /\ openai_client

\* line 127
UsesOllama(provider) == ~UsesOpenAI(provider) /\ provider = Some(OLLAMA)

Success(content, tokens) ==
    [success |-> TRUE, content |-> content, tokens_used |-> tokens]

Failure(error) == [success |-> FALSE, error |-> error]

\* the exception left send_prompt: there is no return value
Raised(error) == [raised |-> error]

ChatRequest(model, prompt, temp) ==
    [endpoint |-> "chat.completions", model |-> model, prompt |-> prompt,
     temperature |-> temp]

GenerateRequest(model, prompt, temp) ==
    [endpoint |-> "/api/generate", model |-> model, prompt |-> prompt,
     temperature |-> temp]

\* lines 116-126
OpenAIResult(reply) ==
    CASE reply = "completion" -> Success(Str("text"), Some(42))
      [] reply = "no_choices" -> Failure(Str("IndexError"))
      [] reply = "no_usage" -> Failure(Str("AttributeError"))
      [] OTHER -> Failure(Str("APIError"))

\* lines 129-143
OllamaResult(reply) ==
    CASE reply = "response" -> Success(Str("text"), Str("N/A"))
      [] reply = "no_response_field" -> Success(<<>>, Str("N/A"))
      [] reply = "not_json" -> Failure(Str("JSONDecodeError"))
      [] reply = "http_error" -> Failure(Str("HTTPError"))
      [] OTHER -> Failure(Str("ConnectionError"))

\* line 145
InvalidProvider(provider) ==
    Failure(<<"Invalid or unavailable provider", provider>>)

\* the entries lines 112-151 write, given the branch taken and its outcome
SendLog(provider, model, reply, result) ==
    <<Entry("INFO", "Sending prompt", provider, model)>>
    \o (IF UsesOpenAI(provider) /\ reply /= "api_error"
        THEN <<Entry("DEBUG", "OpenAI API response received", None, model)>>
        ELSE <<>>)
    \o (IF UsesOllama(provider)
        THEN <<Entry("DEBUG", "Sending request to Ollama", None, model)>>
        ELSE <<>>)
    \o (IF UsesOllama(provider) /\ reply /= "request_failed"
        THEN <<Entry("DEBUG", "Ollama API response received", None, model)>>
        ELSE <<>>)
    \o (IF result.success
        THEN <<Entry("DEBUG", "Successfully got response", provider, None)>>
        ELSE <<Entry("ERROR", "Error sending prompt", provider, None)>>)

Operation(op, prompt, provider, model, temperature, reply, result) ==
    [op |-> op, prompt |-> prompt, provider |-> provider, model |-> model,
     temperature |-> temperature, reply |-> reply, result |-> result]

\* send_prompt(prompt, provider, model, temperature), called as operation op;
\* reply is what the backend answers if a request is dispatched
send_prompt(op, prompt, providerArg, modelArg, temperatureArg, reply) ==
    LET provider == ResolveProvider(providerArg)
        temp == ResolveTemperature(temperatureArg)
        model == ResolveModel(provider, modelArg)
    IN  IF model = Unset
        THEN /\ log' = log
             /\ calls' = <<>>
             /\ last' = Operation(op, prompt, providerArg, modelArg, temperatureArg,
                                  reply, Raised(Str("AttributeError")))
        ELSE LET result == IF UsesOpenAI(provider) THEN OpenAIResult(reply)
                           ELSE IF UsesOllama(provider) THEN OllamaResult(reply)
                           ELSE InvalidProvider(provider)
             IN  /\ log' = log \o SendLog(provider, model, reply, result)
                 /\ calls' = IF UsesOpenAI(provider)
                             THEN <<ChatRequest(model[1], prompt, temp)>>
                             ELSE IF UsesOllama(provider)
                             THEN <<GenerateRequest(model[1], prompt, temp)>>
                             ELSE <<>>
                 /\ last' = Operation(op, prompt, providerArg, modelArg,
                                      temperatureArg, reply, result)

\* the answers the backend of the resolved provider can give
Replies(providerArg, modelArg) ==
    LET provider == ResolveProvider(providerArg)
    IN  IF ResolveModel(provider, modelArg) = Unset THEN {"none"}
        ELSE IF UsesOpenAI(provider) THEN OpenAIReplies
        ELSE IF UsesOllama(provider) THEN OllamaReplies
        ELSE {"none"}

SendPrompt ==
    /\ ncalls < MaxCalls
    /\ \E prompt \in Prompts, p \in ProviderArgs, m \in ModelArgs,
          t \in TemperatureArgs :
          \E reply \in Replies(p, m) :
              send_prompt("send_prompt", prompt, p, m, t, reply)
    /\ ncalls' = ncalls + 1
    /\ UNCHANGED wrapper

\* brainstorm_project(topic): lines 167-176
BrainstormProject ==
    /\ ncalls < MaxCalls
    /\ \E topic \in Topics :
          \E reply \in Replies(None, None) :
              send_prompt("brainstorm_project",
                          Str("Help me brainstorm an AI/Data Science project related to")
                              \o topic,
                          None, None, None, reply)
    /\ ncalls' = ncalls + 1
    /\ UNCHANGED wrapper

\* get_code_suggestion(description): lines 188-198
GetCodeSuggestion ==
    /\ ncalls < MaxCalls
    /\ \E description \in Topics :
          \E reply \in Replies(None, None) :
              send_prompt("get_code_suggestion",
                          Str("Please provide Python code suggestions for") \o description,
                          None, None, None, reply)
    /\ ncalls' = ncalls + 1
    /\ UNCHANGED wrapper

----------------------------------------------------------------------------
(* get_available_models *)

OPENAI_MODELS == <<GPT4, <<"gpt-3.5-turbo">>, <<"gpt-4-turbo">>>>

\* lines 67-69
OpenAIModels == IF openai_client THEN OPENAI_MODELS ELSE <<>>

\* line 76, one name: model["name"].split(":")[0]
DisplayName(name) == SplitFirst(name)

\* what GET /api/tags can answer
TagsReplies ==
    {[kind |-> "models", names |-> l] : l \in Listings}
    \cup {[kind |-> k, names |-> <<>>] :
             k \in {"no_models_key", "missing_name", "not_json", "status_other",
                    "request_failed"}}

\* lines 72-79: the list stays empty unless the answer is a 200 with well-formed
\* descriptors
OllamaModels(reply) ==
    IF reply.kind = "models"
    THEN [i \in 1..Len(reply.names) |-> DisplayName(reply.names[i])]
    ELSE <<>>

ModelsLog(reply) ==
    (IF openai_client THEN <<Plain("DEBUG", "Retrieved OpenAI models")>> ELSE <<>>)
    \o (CASE reply.kind \in {"models", "no_models_key"} ->
                <<Detailed("DEBUG", "Retrieved Ollama models", None, None,
                           OllamaModels(reply))>>
           [] reply.kind \in {"missing_name", "not_json", "request_failed"} ->
                <<Plain("ERROR", "Failed to get Ollama models")>>
           [] OTHER -> <<>>)

\* the whole method sits in the try block: a failed listing loses the fixed list
Mutant_get_available_models(reply) ==
    /\ log' = log \o ModelsLog(reply)
    /\ calls' = <<[endpoint |-> "/api/tags"]>>
    /\ last' = [op |-> "get_available_models", reply |-> reply,
                result |-> [openai |-> IF reply.kind \in {"models", "no_models_key",
                                                          "status_other"}
                                       THEN OpenAIModels ELSE <<>>,
                            ollama |-> OllamaModels(reply)]]

get_available_models(reply) ==
    /\ log' = log \o ModelsLog(reply)
    /\ calls' = <<[endpoint |-> "/api/tags"]>>
    /\ last' = [op |-> "get_available_models", reply |-> reply,
                result |-> [openai |-> OpenAIModels, ollama |-> OllamaModels(reply)]]

GetAvailableModels ==
    /\ ncalls < MaxCalls
    /\ \E reply \in TagsReplies : get_available_models(reply)
    /\ ncalls' = ncalls + 1
    /\ UNCHANGED wrapper

----------------------------------------------------------------------------

Next ==
    \/ SendPrompt
    \/ BrainstormProject
    \/ GetCodeSuggestion
    \/ GetAvailableModels

Spec == Init /\ [][Next]_vars

----------------------------------------------------------------------------
(* Vocabulary of the properties *)

SendOps == {"send_prompt", "brainstorm_project", "get_code_suggestion"}

\* the latest operation went through send_prompt
Sent == last.op \in SendOps

\* the provider the latest send_prompt resolved to
SentProvider == ResolveProvider(last.provider)

IsSuccess(r) == "success" \in DOMAIN r /\ r.success
IsFailure(r) == "success" \in DOMAIN r /\ ~r.success /\ "error" \in DOMAIN r
IsRaised(r) == "raised" \in DOMAIN r

\* the latest send_prompt issued a request to a backend
Dispatched == Sent /\ calls /= <<>>

----------------------------------------------------------------------------
(* C1 *)

\* C1: send_prompt never raises: in every wrapper state and for every combination
\* of arguments the call returns Success or Failure, and no exception reaches the
\* caller.
C1_NeverRaises ==
    Sent => (IsSuccess(last.result) \/ IsFailure(last.result))

----------------------------------------------------------------------------
(* C2 *)

\* the resolved provider is unavailable: CloudAPI without a client, LocalServer
\* that answered no HTTP 200 at startup, or a name that is neither
Unavailable(provider) ==
    \/ provider = Some(OPENAI) /\ ~openai_client
    \/ provider = Some(OLLAMA) /\ ~ProbeOk(version_probe)
    \/ provider \notin {Some(OPENAI), Some(OLLAMA)}

\* C2: when the resolved provider is unavailable, send_prompt returns Failure with
\* the message naming the invalid or unavailable provider and issues no network
\* call.
C2_UnavailableFailsWithoutCall ==
    (Sent /\ Unavailable(SentProvider)) =>
        /\ last.result = InvalidProvider(SentProvider)
        /\ calls = <<>>

----------------------------------------------------------------------------
(* C3 *)

\* C3: for LocalServer an explicit model name without a colon is dispatched with
\* ":latest" appended, and an explicit name that holds a colon is dispatched
\* unchanged.
C3_LocalModelResolution ==
    (Dispatched /\ UsesOllama(SentProvider) /\ TruthyStr(last.model)) =>
        calls[1].model = IF HasColon(last.model[1])
                         THEN last.model[1]
                         ELSE last.model[1] \o LATEST_SUFFIX

----------------------------------------------------------------------------
(* C4 *)

\* C4: without a temperature argument the request is dispatched with 0.7, and
\* with an explicit temperature in [0,1], 0 and 1 included, with exactly that
\* value.
C4_TemperatureResolution ==
    Dispatched =>
        calls[1].temperature = IF last.temperature = None
                               THEN DEFAULT_TEMPERATURE
                               ELSE last.temperature[1]

----------------------------------------------------------------------------
(* C5 *)

\* C5 as first stated: in every state after initialization exactly one provider
\* is designated current, CloudAPI whenever its client was created and LocalServer
\* only when CloudAPI is unavailable and the version probe returned HTTP 200.
C5_ExactlyOneCurrent ==
    /\ current_provider \in {Some(OPENAI), Some(OLLAMA)}
    /\ openai_client => current_provider = Some(OPENAI)
    /\ current_provider = Some(OLLAMA) => (~openai_client /\ ProbeOk(version_probe))

\* C5 amended: at most one provider is designated current: CloudAPI whenever its
\* client was created (also when LocalServer is detected too), LocalServer exactly
\* when CloudAPI is unavailable and the version probe returned HTTP 200, and no
\* provider at all when neither was detected.
C5_AtMostOneCurrent ==
    /\ current_provider \in {None, Some(OPENAI), Some(OLLAMA)}
    /\ openai_client => current_provider = Some(OPENAI)
    /\ (~openai_client /\ ProbeOk(version_probe)) => current_provider = Some(OLLAMA)
    /\ (~openai_client /\ ~ProbeOk(version_probe)) => current_provider = None

\* both providers were detected, CloudAPI is current, and the wrapper has been used
C5_Witness ==
    /\ openai_client
    /\ ProbeOk(version_probe)
    /\ current_provider = Some(OPENAI)
    /\ ncalls > 0

----------------------------------------------------------------------------
(* C6 *)

\* s without its trailing ":tag": the text before the last colon
StripTrailingQualifier(s) ==
    IF HasColon(s)
    THEN LET i == CHOOSE k \in 1..Len(s) :
                     s[k] = COLON /\ \A j \in (k + 1)..Len(s) : s[j] /= COLON
         IN  SubSeq(s, 1, i - 1)
    ELSE s

Listed == last.op = "get_available_models" /\ last.reply.kind = "models"

\* C6: get_available_models returns for LocalServer, in the server's order, each
\* listed name with only its trailing ":tag" removed; a name without a qualifier
\* is unchanged and nothing before the trailing qualifier is dropped.
C6_StripsTrailingQualifier ==
    Listed =>
        last.result.ollama =
            [i \in 1..Len(last.reply.names) |->
                StripTrailingQualifier(last.reply.names[i])]

----------------------------------------------------------------------------
(* C7 *)

\* C7 as first stated: get_available_models yields the fixed three-element list
\* for CloudAPI in every wrapper state, whatever the local-server request does.
C7_AlwaysFixedList ==
    last.op = "get_available_models" =>
        last.result.openai = <<GPT4, <<"gpt-3.5-turbo">>, <<"gpt-4-turbo">>>>

\* C7 amended: whenever the CloudAPI client was created, get_available_models
\* yields the fixed three-element list for CloudAPI, whether the local-server
\* request succeeds, fails or returns a non-200 status; without a client it
\* yields the empty list.
C7_FixedListWithClient ==
    last.op = "get_available_models" =>
        /\ openai_client =>
              last.result.openai = <<GPT4, <<"gpt-3.5-turbo">>, <<"gpt-4-turbo">>>>
        /\ ~openai_client => last.result.openai = <<>>

\* the client exists, the listing request failed, and the fixed list came back
C7_Witness ==
    /\ last.op = "get_available_models"
    /\ openai_client
    /\ last.reply.kind = "request_failed"
    /\ Len(last.result.openai) = 3

----------------------------------------------------------------------------
(* C8 *)

\* C8: when send_prompt resolves to LocalServer and no model argument is given,
\* the dispatched model is the stored default, and that default holds a colon
\* qualifier, in every wrapper state.
C8_LocalDefaultHasQualifier ==
    (Dispatched /\ UsesOllama(SentProvider) /\ last.model = None) =>
        /\ calls[1].model = default_model[1]
        /\ HasColon(default_model[1])

----------------------------------------------------------------------------
(* C9 *)

\* the backend answered with an unexpected JSON shape
Malformed == last.reply \in {"no_choices", "no_usage", "no_response_field"}

\* C9: a dispatch answered with an unexpected JSON shape, for LocalServer a body
\* without the response field and for CloudAPI a reply without a first choice or
\* usage, ends in Failure and never in Success.
C9_MalformedIsFailure ==
    (Dispatched /\ Malformed) => IsFailure(last.result)

----------------------------------------------------------------------------
(* C10 *)

\* the entries a step appends
Appended == SubSeq(log', Len(log) + 1, Len(log'))

\* C10: every send_prompt invocation appends a log entry naming the provider and
\* the model involved, every invocation that does not end in Success appends an
\* error-level entry, and entries are only appended, never removed or rewritten.
C10_EveryCallLogged ==
    [][/\ Len(log') >= Len(log)
       /\ SubSeq(log', 1, Len(log)) = log
       /\ (ncalls' = ncalls + 1 /\ Sent') =>
             /\ \E i \in 1..Len(Appended) :
                   /\ Appended[i].provider = SentProvider'
                   /\ Appended[i].model /= None
             /\ ~IsSuccess(last'.result) =>
                   \E i \in 1..Len(Appended) : Appended[i].level = "ERROR"]_vars

----------------------------------------------------------------------------
(* C11 *)

\* app.py, the model dropdown's initial value:
\* assistant.default_model.split(":")[0] if assistant.current_provider == "ollama"
\* else assistant.default_model
InitialModelValue ==
    IF current_provider = Some(OLLAMA)
    THEN SplitFirst(default_model[1])
    ELSE default_model[1]

\* C11: whenever a current provider is designated, the stored default model
\* belongs to it, "gpt-4" for openai and "llama3.2:latest" for ollama, for every
\* combination of detection outcomes, and the model the UI first selects is that
\* default (shown without its qualifier for ollama).
C11_DefaultModelOfCurrent ==
    current_provider /= None =>
        /\ current_provider = Some(OPENAI) =>
              /\ default_model = Some(GPT4)
              /\ InitialModelValue = GPT4
        /\ current_provider = Some(OLLAMA) =>
              /\ default_model = Some(LLAMA_LATEST)
              /\ InitialModelValue = <<"llama3.2">>

====
